---------------------------- MODULE Spec2Model ----------------------------
(***************************************************************************)
(* A model of pandemic-simulation.py: the per-turn transition of every     *)
(* City, the TreatmentCentre units, the Engine that orders a turn, the     *)
(* search find_best_config over three closed connections, and the driver   *)
(* (__main__ and animate_map) that calls them.                             *)
(*                                                                         *)
(* Cities are numbered 1..N in the insertion order of the `cities` dict    *)
(* (the order `cities.values()` iterates in).  The rates of a scenario are *)
(* floats in the source; here each is an exact fraction <<num, den>> and   *)
(* int(x * rate) is computed on the fraction.  Populations, seeded cases   *)
(* and the treatment limit are scaled down from the source's scenario      *)
(* tables; the rates themselves are the source's.                          *)
(***************************************************************************)
EXTENDS Integers, Sequences, FiniteSets, TLC

VARIABLES
    cities,                 \* the dict name -> City, as a sequence of City records
    treatments,             \* engine.treatments: sequence of TreatmentCentre records
    engine,                 \* the Engine that is running (main engine or temp_engine)
    params,                 \* the module-level scenario settings (lines 42-48)
    SIMULATION_NUMBER,      \* line 31
    pc,                     \* position of the driver / of Engine.run_turn
    cur,                    \* index of the city or treatment unit the running loop is at
    caller,                 \* who called Engine.run_turn
    depth,                  \* find_best_config: which of the three nested loops is running
    loop_city,              \* find_best_config: city1, city2, city3
    loop_neighbours,        \* find_best_config: the three get_neighbours() lists
    loop_index,             \* find_best_config: position in each of the three lists
    minimum_deaths,         \* find_best_config local
    minimum_deaths_config,  \* find_best_config local / the driver's copy
    baseline,               \* history: neighbour sets when find_best_config was called
    trial_deaths,           \* history: the death count of every trial, in order
    best_trial,             \* history: index of the trial remembered as best (0: none)
    best_triple,            \* history: the three connections of that trial
    best_neighbours,        \* history: the neighbour sets that trial ran on
    turn_log,               \* history: the calls made by the running Engine.run_turn
    first_case_log,         \* history: per city, what every first_case() call since the
                            \* last reset saw in `infected` and what it returned
    edits                   \* history: the last two direct calls of add_neighbour and
                            \* remove_neighbour, with the neighbour sets each was made on

vars == <<cities, treatments, engine, params, SIMULATION_NUMBER, pc, cur,
          caller, depth, loop_city, loop_neighbours, loop_index, minimum_deaths,
          minimum_deaths_config, baseline, trial_deaths, best_trial, best_triple,
          best_neighbours, turn_log, first_case_log, edits>>

search_vars == <<depth, loop_city, loop_neighbours, loop_index, minimum_deaths,
                 minimum_deaths_config, baseline, trial_deaths, best_trial,
                 best_triple, best_neighbours>>

-----------------------------------------------------------------------------
(* Bounds of the model *)

\* animate_map is called at most this many times
MaxTurns == 22
\* the largest population of a city in the input data
MaxPopulation == 80

-----------------------------------------------------------------------------
(* Arithmetic *)

Max(a, b) == IF a >= b THEN a ELSE b

\* int(a / b) for b > 0: Python's int() truncates towards zero
IntOf(a, b) == IF a >= 0 THEN a \div b ELSE -((-a) \div b)

\* float('inf'), the initial minimum_deaths
Infinity == -1

LessThan(a, b) == b = Infinity \/ (a # Infinity /\ a < b)

N == Len(cities)
Cities == 1..N

RECURSIVE SumUpTo(_, _, _)
SumUpTo(cs, field, n) == IF n = 0 THEN 0 ELSE cs[n][field] + SumUpTo(cs, field, n - 1)

\* sum([city.<field> for city in self.cities.values()])
SumOf(cs, field) == SumUpTo(cs, field, Len(cs))

-----------------------------------------------------------------------------
(* Scenario tables *)

\* scenario_dict of get_initial_parameters; the treatment limit is scaled down
scenario_dict ==
    [s \in 0..4 |->
       CASE s = 0 -> [STOPPING_CONDITIONS |-> 0, TREATMENT_MOVEMENT |-> FALSE,
                      TREATMENT_LIMIT |-> 0, MORTALITY_RATE |-> <<1, 1>>,
                      INFECTION_RATE |-> <<4, 1>>, MOVEMENT_PROPORTION |-> <<1, 10>>,
                      AVERAGE_DURATION |-> <<4, 1>>]
         [] s = 1 -> [STOPPING_CONDITIONS |-> 150, TREATMENT_MOVEMENT |-> FALSE,
                      TREATMENT_LIMIT |-> 0, MORTALITY_RATE |-> <<1, 10>>,
                      INFECTION_RATE |-> <<4, 10>>, MOVEMENT_PROPORTION |-> <<1, 4>>,
                      AVERAGE_DURATION |-> <<3, 1>>]
         [] s = 2 -> [STOPPING_CONDITIONS |-> 150, TREATMENT_MOVEMENT |-> TRUE,
                      TREATMENT_LIMIT |-> 15, MORTALITY_RATE |-> <<1, 10>>,
                      INFECTION_RATE |-> <<4, 10>>, MOVEMENT_PROPORTION |-> <<1, 4>>,
                      AVERAGE_DURATION |-> <<3, 1>>]
         [] s = 3 -> [STOPPING_CONDITIONS |-> 0, TREATMENT_MOVEMENT |-> TRUE,
                      TREATMENT_LIMIT |-> 15, MORTALITY_RATE |-> <<1, 4>>,
                      INFECTION_RATE |-> <<3, 2>>, MOVEMENT_PROPORTION |-> <<1, 10>>,
                      AVERAGE_DURATION |-> <<4, 1>>]
         [] s = 4 -> [STOPPING_CONDITIONS |-> 20, TREATMENT_MOVEMENT |-> FALSE,
                      TREATMENT_LIMIT |-> 0, MORTALITY_RATE |-> <<3, 10>>,
                      INFECTION_RATE |-> <<1, 1>>, MOVEMENT_PROPORTION |-> <<1, 20>>,
                      AVERAGE_DURATION |-> <<4, 1>>]]

get_initial_parameters(scenario_number) ==
    scenario_dict[IF scenario_number \in DOMAIN scenario_dict THEN scenario_number ELSE 0]

\* state_dict of set_initial_state: (cities of the treatment units, seeded cases);
\* the city names are the cities 1..3 of the model and the cases are scaled down
state_dict ==
    [s \in 0..4 |->
       CASE s = 0 -> [units |-> <<>>, cases |-> << <<2, 10>> >>]
         [] s = 1 -> [units |-> <<>>, cases |-> << <<1, 10>>, <<2, 100>>, <<3, 10>> >>]
         [] s = 2 -> [units |-> <<3, 1, 2>>,
                      cases |-> << <<1, 10>>, <<2, 100>>, <<3, 10>> >>]
         [] s = 3 -> [units |-> <<2, 1, 3>>, cases |-> << <<1, 50>>, <<3, 50>> >>]
         [] s = 4 -> [units |-> <<>>, cases |-> << <<1, 10>>, <<2, 100>>, <<3, 10>> >>]]

-----------------------------------------------------------------------------
(* City *)

\* City.__init__
City(population) ==
    [infected |-> 0, incoming_infected |-> 0, survivors |-> 0, cured |-> 0,
     dead |-> 0, initial_population |-> population,
     healthy_population |-> population, neighbours |-> {}, ever_infected |-> FALSE]

\* faulty variant: the connection is added to the other city's set
add_neighbour_swapped(cs, c, neighbour) ==
    [cs EXCEPT ![neighbour].neighbours = @ \cup {c}]

add_neighbour(cs, c, neighbour) ==
    [cs EXCEPT ![c].neighbours = @ \cup {neighbour}]

\* line 124: set.remove raises KeyError for an element that is not in the set
KeyError(cs, c, neighbour) == neighbour \notin cs[c].neighbours

\* faulty variant: the connection is closed in both directions
remove_neighbour_both(cs, c, neighbour) ==
    [cs EXCEPT ![c].neighbours = @ \ {neighbour}, ![neighbour].neighbours = @ \ {c}]

\* the set after set.remove of a member; for a missing one see KeyError
remove_neighbour(cs, c, neighbour) ==
    [cs EXCEPT ![c].neighbours = @ \ {neighbour}]

\* The lists a set of cities can be iterated as.  The order in which a Python
\* set yields its members depends on their hashes (randomised per process for
\* names) and on the insertions and removals made so far: any order can occur.
Iterations(S) ==
    {s \in [1..Cardinality(S) -> S] : \A i, j \in DOMAIN s : i # j => s[i] # s[j]}

\* get_neighbours: the lists it can return
get_neighbours(cs, c) == Iterations(cs[c].neighbours)

\* first_case: the value returned
first_case(cs, c) == cs[c].ever_infected = FALSE /\ cs[c].infected > 0

\* faulty variant: the flag is not set
first_case_latch_forgotten(cs, c) == cs

\* first_case: the state it leaves
first_case_latch(cs, c) ==
    IF first_case(cs, c) THEN [cs EXCEPT ![c].ever_infected = TRUE] ELSE cs

infection_free(cs, c) == cs[c].ever_infected = TRUE /\ cs[c].infected = 0

all_infected(cs, c) ==
    cs[c].initial_population <= cs[c].infected /\ cs[c].infected # cs[c].dead

\* faulty variant: the cases that arrived also stay in transit
start_of_turn_keeps_incoming(cs, c) ==
    [cs EXCEPT ![c].infected = @ + cs[c].incoming_infected]

start_of_turn(cs, c) ==
    [cs EXCEPT ![c].infected = @ + cs[c].incoming_infected,
               ![c].incoming_infected = 0]

cases_per_neighbour(cs, c) ==
    IntOf(cs[c].infected * params.MOVEMENT_PROPORTION[1], params.MOVEMENT_PROPORTION[2])
        \div Cardinality(cs[c].neighbours)

\* faulty variant: the source loses all the cases that were to move, remainder included
move_infected_all_moving(cs, c) ==
    IF Cardinality(cs[c].neighbours) <= 0
    THEN cs
    ELSE LET per == cases_per_neighbour(cs, c)
             received == [d \in DOMAIN cs |->
                            IF d \in cs[c].neighbours
                            THEN [cs[d] EXCEPT !.incoming_infected = @ + per]
                            ELSE cs[d]]
         IN  [received EXCEPT ![c].infected =
                 @ - IntOf(cs[c].infected * params.MOVEMENT_PROPORTION[1],
                           params.MOVEMENT_PROPORTION[2])]

\* faulty variant: the cases that move are in the neighbour's infected at once
move_infected_arrived(cs, c) ==
    IF Cardinality(cs[c].neighbours) <= 0
    THEN cs
    ELSE LET per == cases_per_neighbour(cs, c)
             received == [d \in DOMAIN cs |->
                            IF d \in cs[c].neighbours
                            THEN [cs[d] EXCEPT !.infected = @ + per]
                            ELSE cs[d]]
         IN  [received EXCEPT ![c].infected = @ - per * Cardinality(cs[c].neighbours)]

move_infected(cs, c) ==
    IF Cardinality(cs[c].neighbours) <= 0
    THEN cs
    ELSE LET per == cases_per_neighbour(cs, c)
             received == [d \in DOMAIN cs |->
                            IF d \in cs[c].neighbours
                            THEN [cs[d] EXCEPT !.incoming_infected = @ + per]
                            ELSE cs[d]]
         IN  [received EXCEPT ![c].infected = @ - per * Cardinality(cs[c].neighbours)]

\* faulty variant: without the lower bound of 5 on the cases resolved
cases_resolved_no_lower_bound(infected) ==
    IF infected > 5
    THEN (infected * params.AVERAGE_DURATION[2]) \div params.AVERAGE_DURATION[1]
    ELSE IF infected > 0 THEN infected ELSE 0

\* max(int(self.infected // AVERAGE_DURATION), 5) and the two other branches
cases_resolved(infected) ==
    IF infected > 5
    THEN Max((infected * params.AVERAGE_DURATION[2]) \div params.AVERAGE_DURATION[1], 5)
    ELSE IF infected > 0 THEN infected ELSE 0

\* int(n * MORTALITY_RATE)
cases_die(n) == IntOf(n * params.MORTALITY_RATE[1], params.MORTALITY_RATE[2])

\* faulty variant: every resolved case is counted as a survivor, the dead included
change_in_infected_numbers_all_survive(cs, c) ==
    LET resolved == cases_resolved(cs[c].infected)
        die == cases_die(resolved)
    IN  [cs EXCEPT ![c].infected = @ - resolved,
                   ![c].survivors = @ + resolved,
                   ![c].dead = @ + die]

change_in_infected_numbers(cs, c) ==
    LET resolved == cases_resolved(cs[c].infected)
        die == cases_die(resolved)
    IN  [cs EXCEPT ![c].infected = @ - resolved,
                   ![c].survivors = @ + (resolved - die),
                   ![c].dead = @ + die]

\* hc = int(r * self.infected * INFECTION_RATE), r = healthy / (healthy + survivors + cured)
healthy_contacts(city) ==
    IntOf(city.healthy_population * city.infected * params.INFECTION_RATE[1],
          (city.healthy_population + city.survivors + city.cured) * params.INFECTION_RATE[2])

\* lines 199-210
spread_contacts(city) ==
    IF city.healthy_population + city.survivors + city.cured > 0
    THEN IF city.healthy_population < healthy_contacts(city)
         THEN [city EXCEPT !.infected = @ + city.healthy_population,
                           !.healthy_population = 0]
         ELSE IF city.infected > 0
              THEN [city EXCEPT !.healthy_population = @ - healthy_contacts(city),
                                !.infected = @ + healthy_contacts(city)]
              ELSE city
    ELSE city

\* faulty variant: the operands of the survivors' difference are swapped
spread_extinction_swapped(city) ==
    IF city.infected < 10 /\ city.healthy_population = 0
    THEN [city EXCEPT !.dead = @ + cases_die(city.infected),
                      !.survivors = @ + (cases_die(city.infected) - city.infected),
                      !.infected = 0]
    ELSE city

\* lines 212-215
spread_extinction(city) ==
    IF city.infected < 10 /\ city.healthy_population = 0
    THEN [city EXCEPT !.dead = @ + cases_die(city.infected),
                      !.survivors = @ + (city.infected - cases_die(city.infected)),
                      !.infected = 0]
    ELSE city

\* faulty variant: the forced resolution is inside the test of line 199
spread_infection_resolution_inside(cs, c) ==
    [cs EXCEPT ![c] = IF cs[c].healthy_population + cs[c].survivors + cs[c].cured > 0
                      THEN spread_extinction(spread_contacts(cs[c]))
                      ELSE cs[c]]

spread_infection(cs, c) ==
    [cs EXCEPT ![c] = spread_extinction(spread_contacts(cs[c]))]

\* faulty variant: the dead of the earlier run are kept
reset_keeps_dead(city) ==
    [city EXCEPT !.infected = 0, !.incoming_infected = 0, !.survivors = 0,
                 !.cured = 0,
                 !.healthy_population = city.initial_population,
                 !.ever_infected = FALSE]

reset(city) ==
    [city EXCEPT !.infected = 0, !.incoming_infected = 0, !.survivors = 0,
                 !.cured = 0, !.dead = 0,
                 !.healthy_population = city.initial_population,
                 !.ever_infected = FALSE]

reset_cities(cs) == [c \in DOMAIN cs |-> reset(cs[c])]

-----------------------------------------------------------------------------
(* TreatmentCentre *)

TreatmentCentre(city) ==
    [treatment_remaining |-> params.TREATMENT_LIMIT, city |-> city]

\* the loop of find_most_affected_city over the iterated neighbours, from position k
RECURSIVE most_affected_from(_, _, _, _)
most_affected_from(cs, nbrs, k, most) ==
    IF k > Len(nbrs)
    THEN most
    ELSE most_affected_from(cs, nbrs, k + 1,
             IF cs[nbrs[k]].infected > cs[most].infected THEN nbrs[k] ELSE most)

\* faulty variant: the first neighbour with more infected than the unit's city
find_most_affected_city_first_larger(cs, unit, nbrs) ==
    IF \E k \in DOMAIN nbrs : cs[nbrs[k]].infected > cs[unit.city].infected
    THEN nbrs[CHOOSE k \in DOMAIN nbrs :
                 /\ cs[nbrs[k]].infected > cs[unit.city].infected
                 /\ \A j \in 1..(k - 1) : cs[nbrs[j]].infected <= cs[unit.city].infected]
    ELSE unit.city

\* nbrs: the order in which `for neighbour in self.city.neighbours` runs
find_most_affected_city(cs, unit, nbrs) ==
    most_affected_from(cs, nbrs, 1, unit.city)

move(cs, unit, nbrs) == [unit EXCEPT !.city = find_most_affected_city(cs, unit, nbrs)]

\* where the unit is when it treats: lines 280-281
moved(cs, unit, nbrs) == IF params.TREATMENT_MOVEMENT THEN move(cs, unit, nbrs) ELSE unit

\* the number cured by lines 283-290
treated(infected, remaining) == IF infected <= remaining THEN infected ELSE remaining

\* faulty variant: the capacity is charged for every infected, whatever is left
remaining_after_unchecked(infected, remaining) == remaining - infected

\* the treatment_remaining left by lines 283-290
remaining_after(infected, remaining) ==
    IF infected <= remaining THEN remaining - infected ELSE 0

treatment_unit_after(cs, unit, nbrs) ==
    LET u == moved(cs, unit, nbrs)
    IN  [u EXCEPT !.treatment_remaining = remaining_after(cs[u.city].infected, @)]

treatment_cities_after(cs, unit, nbrs) ==
    LET u == moved(cs, unit, nbrs)
        n == treated(cs[u.city].infected, u.treatment_remaining)
    IN  [cs EXCEPT ![u.city].cured = @ + n, ![u.city].infected = @ - n]

-----------------------------------------------------------------------------
(* Engine *)

\* Engine.__init__
Engine(logger) ==
    [turn_number |-> 0, logger |-> logger, healthy_population |-> <<>>,
     infected |-> <<>>, survivors |-> <<>>, deaths |-> <<>>, cured |-> <<>>]

\* log_out_city_info: first_case is only asked when the engine has a logger
log_out_city_info(cs, c) == IF engine.logger THEN first_case_latch(cs, c) ELSE cs

\* the history of first_case() calls after log_out_city_info has run on city c
logged_first_case(cs, c) ==
    IF engine.logger
    THEN [first_case_log EXCEPT ![c] = Append(@, <<cs[c].infected, first_case(cs, c)>>)]
    ELSE first_case_log

\* set_initial_state: the cities it leaves
seeded_cities(scenario_number, cs) ==
    LET sc == state_dict[IF scenario_number \in DOMAIN state_dict
                         THEN scenario_number ELSE 0].cases
    IN  [c \in DOMAIN cs |->
           IF \E k \in 1..Len(sc) : sc[k][1] = c
           THEN [cs[c] EXCEPT !.incoming_infected =
                    sc[CHOOSE k \in 1..Len(sc) :
                          sc[k][1] = c /\ \A j \in (k + 1)..Len(sc) : sc[j][1] # c][2]]
           ELSE cs[c]]

\* set_initial_state: the treatment units it creates
seeded_treatments(scenario_number) ==
    LET un == state_dict[IF scenario_number \in DOMAIN state_dict
                         THEN scenario_number ELSE 0].units
    IN  [k \in 1..Len(un) |-> TreatmentCentre(un[k])]

\* faulty variant: the deaths series is fed from the survivors
gathered_deaths_from_survivors(e, cs) ==
    [e EXCEPT !.infected = Append(@, SumOf(cs, "infected")),
              !.healthy_population = Append(@, SumOf(cs, "healthy_population")),
              !.survivors = Append(@, SumOf(cs, "survivors")),
              !.deaths = Append(@, SumOf(cs, "survivors")),
              !.cured = Append(@, SumOf(cs, "cured"))]

\* the statistics appended by lines 357-361
gathered(e, cs) ==
    [e EXCEPT !.infected = Append(@, SumOf(cs, "infected")),
              !.healthy_population = Append(@, SumOf(cs, "healthy_population")),
              !.survivors = Append(@, SumOf(cs, "survivors")),
              !.deaths = Append(@, SumOf(cs, "dead")),
              !.cured = Append(@, SumOf(cs, "cured"))]

\* faulty variant: one loop runs start_of_turn and run_turn city by city
after_start_of_turn_interleaved(c) == <<"move_infected", c>>

\* Where Engine.run_turn goes after the step it is at (lines 343-361)
after_start_of_turn(c) ==
    IF c < N THEN <<"start_of_turn", c + 1>> ELSE <<"move_infected", 1>>

after_city_run_turn(c) ==
    IF c < N THEN <<"move_infected", c + 1>>
    ELSE IF Len(treatments) > 0 THEN <<"treatment", 1>> ELSE <<"statistics", 0>>

after_treatment(t) ==
    IF t < Len(treatments) THEN <<"treatment", t + 1>> ELSE <<"statistics", 0>>

\* the termination test of animate_map, lines 472-473
terminated ==
    \/ (Len(engine.infected) > 0 /\ engine.infected[Len(engine.infected)] = 0)
    \/ (params.STOPPING_CONDITIONS # 0
        /\ engine.turn_number >= params.STOPPING_CONDITIONS)

-----------------------------------------------------------------------------
(* Engine.run_turn as one function of the state it is called in *)

\* the list a set of cities is iterated as when it yields them in the order of
\* the `cities` dict
RECURSIVE InOrder(_)
InOrder(S) ==
    IF S = {}
    THEN <<>>
    ELSE LET first == CHOOSE x \in S : \A y \in S : x <= y
         IN  <<first>> \o InOrder(S \ {first})

\* F(x), with x evaluated once whatever the number of times F uses it
Once(x, F(_)) == CHOOSE y \in {F(v) : v \in {x}} : TRUE

\* lines 344-345 on the first n cities
RECURSIVE start_of_turn_upto(_, _)
start_of_turn_upto(cs, n) ==
    IF n = 0
    THEN cs
    ELSE Once(start_of_turn_upto(cs, n - 1), LAMBDA before : start_of_turn(before, n))

\* City.run_turn (lines 160-170), then line 350
city_run_turn(cs, c) ==
    Once(move_infected(cs, c), LAMBDA moved_out :
       Once(change_in_infected_numbers(moved_out, c), LAMBDA resolved :
          Once(spread_infection(resolved, c), LAMBDA spread :
             log_out_city_info(spread, c))))

\* lines 348-350 on the first n cities
RECURSIVE city_run_turn_upto(_, _)
city_run_turn_upto(cs, n) ==
    IF n = 0
    THEN cs
    ELSE Once(city_run_turn_upto(cs, n - 1), LAMBDA before : city_run_turn(before, n))

\* lines 348-350 with the cities taken in the order of the list `order`, on its
\* first n cities
RECURSIVE city_run_turn_in(_, _, _)
city_run_turn_in(cs, order, n) ==
    IF n = 0
    THEN cs
    ELSE Once(city_run_turn_in(cs, order, n - 1),
              LAMBDA before : city_run_turn(before, order[n]))

\* TreatmentCentre.run_turn of unit k, its neighbour set iterated in order
treatment_run_turn(run, k) ==
    LET nbrs == InOrder(run.cities[run.treatments[k].city].neighbours)
    IN  [run EXCEPT
           !.cities = treatment_cities_after(run.cities, run.treatments[k], nbrs),
           !.treatments[k] = treatment_unit_after(run.cities, run.treatments[k], nbrs)]

\* lines 353-354 on the first k units
RECURSIVE treatment_run_turn_upto(_, _)
treatment_run_turn_upto(run, k) ==
    IF k = 0
    THEN run
    ELSE Once(treatment_run_turn_upto(run, k - 1),
              LAMBDA before : treatment_run_turn(before, k))

\* Engine.run_turn on a run: its cities, its treatment units and its engine
run_turn(run) ==
    Once([run EXCEPT
            !.engine.turn_number = @ + 1,
            !.cities = city_run_turn_upto(start_of_turn_upto(run.cities, Len(run.cities)),
                                          Len(run.cities))],
         LAMBDA after_cities :
            Once(treatment_run_turn_upto(after_cities, Len(run.treatments)),
                 LAMBDA after_units :
                    [after_units EXCEPT !.engine = gathered(@, after_units.cities)]))

\* Engine.run_turn called n times
RECURSIVE run_turns(_, _)
run_turns(run, n) ==
    IF n = 0 THEN run ELSE Once(run_turns(run, n - 1), LAMBDA before : run_turn(before))

-----------------------------------------------------------------------------
(* Input data and the initial state *)

\* SIMULATION_ITERATIONS, line 546
SIMULATION_ITERATIONS == 20

\* the connection lines of the city file: a path, a triangle, one road and a
\* city off the network
Graphs == { {<<1, 2>>, <<2, 3>>},
            {<<1, 2>>, <<2, 3>>, <<1, 3>>},
            {<<1, 2>>} }

\* the graphs the search of scenario 4 is explored on
SearchGraphs == { {<<1, 2>>, <<2, 3>>}, {<<1, 2>>} }

\* the populations of the city file
Populations == { <<MaxPopulation, 40, 25>>, <<0, MaxPopulation, 6>>,
                 <<40, MaxPopulation, 40>>, <<2000, 900, 10 * MaxPopulation>>,
                 <<0, 10 * MaxPopulation, 6>> }

\* get_city_data: the cities, then both directions of every connection line
get_city_data(populations, connections) ==
    [c \in 1..Len(populations) |->
       [City(populations[c]) EXCEPT !.neighbours =
           {d \in 1..Len(populations) : <<c, d>> \in connections \/ <<d, c>> \in connections}]]

\* the state of __main__ after line 611
Init ==
    /\ SIMULATION_NUMBER \in 0..4
    /\ params = get_initial_parameters(SIMULATION_NUMBER)
    /\ \E populations \in Populations,
          connections \in IF SIMULATION_NUMBER = 4 THEN SearchGraphs ELSE Graphs :
          cities = get_city_data(populations, connections)
    /\ treatments = <<>>
    /\ engine = Engine(TRUE)
    /\ pc = "set_initial_state"
    /\ cur = 0
    /\ caller = "animate_map"
    /\ depth = 0
    /\ loop_city = <<0, 0, 0>>
    /\ loop_neighbours = <<<<>>, <<>>, <<>>>>
    /\ loop_index = <<0, 0, 0>>
    /\ minimum_deaths = Infinity
    /\ minimum_deaths_config = <<>>
    /\ baseline = <<>>
    /\ trial_deaths = <<>>
    /\ best_trial = 0
    /\ best_triple = <<>>
    /\ best_neighbours = <<>>
    /\ turn_log = <<>>
    /\ first_case_log = [c \in DOMAIN cities |-> <<>>]
    /\ edits = <<>>

-----------------------------------------------------------------------------
(* Engine.run_turn, one step at a time *)

\* lines 338-341; called by animate_map (line 478) unless the run has ended,
\* and by the loop of run_simulations_get_deaths (lines 554-555)
EngineRunTurn ==
    /\ pc = "idle"
    /\ caller = "animate_map" => ~terminated /\ engine.turn_number < MaxTurns
    /\ caller = "run_simulations_get_deaths" =>
          engine.turn_number < SIMULATION_ITERATIONS
    /\ engine' = [engine EXCEPT !.turn_number = @ + 1]
    /\ pc' = "start_of_turn"
    /\ cur' = 1
    /\ turn_log' = <<>>
    /\ UNCHANGED <<cities, treatments, params, SIMULATION_NUMBER, caller,
                   search_vars, first_case_log, edits>>

\* lines 344-345, one city
StartOfTurn ==
    /\ pc = "start_of_turn"
    /\ cities' = start_of_turn(cities, cur)
    /\ pc' = after_start_of_turn(cur)[1]
    /\ cur' = after_start_of_turn(cur)[2]
    /\ turn_log' = Append(turn_log, <<"start_of_turn", cur>>)
    /\ UNCHANGED <<treatments, engine, params, SIMULATION_NUMBER, caller,
                   search_vars, first_case_log, edits>>

\* line 160
MoveInfected ==
    /\ pc = "move_infected"
    /\ cities' = move_infected(cities, cur)
    /\ pc' = "change_in_infected_numbers"
    /\ turn_log' = Append(turn_log, <<"run_turn", cur>>)
    /\ UNCHANGED <<treatments, engine, params, SIMULATION_NUMBER, cur, caller,
                   search_vars, first_case_log, edits>>

\* line 164
ChangeInInfectedNumbers ==
    /\ pc = "change_in_infected_numbers"
    /\ cities' = change_in_infected_numbers(cities, cur)
    /\ pc' = "spread_infection"
    /\ UNCHANGED <<treatments, engine, params, SIMULATION_NUMBER, cur, caller,
                   search_vars, turn_log, first_case_log, edits>>

\* line 170, then line 350
SpreadInfection ==
    /\ pc = "spread_infection"
    /\ cities' = log_out_city_info(spread_infection(cities, cur), cur)
    /\ pc' = after_city_run_turn(cur)[1]
    /\ cur' = after_city_run_turn(cur)[2]
    /\ turn_log' = Append(turn_log, <<"run_turn_end", cur>>)
    /\ first_case_log' = logged_first_case(spread_infection(cities, cur), cur)
    /\ UNCHANGED edits
    /\ UNCHANGED <<treatments, engine, params, SIMULATION_NUMBER, caller,
                   search_vars>>

\* lines 353-354, one unit
TreatmentRunTurn ==
    /\ pc = "treatment"
    /\ \E nbrs \in Iterations(cities[treatments[cur].city].neighbours) :
          /\ treatments' = [treatments EXCEPT ![cur] = treatment_unit_after(cities, @, nbrs)]
          /\ cities' = treatment_cities_after(cities, treatments[cur], nbrs)
    /\ pc' = after_treatment(cur)[1]
    /\ cur' = after_treatment(cur)[2]
    /\ turn_log' = Append(turn_log, <<"treatment", cur>>)
    /\ UNCHANGED <<engine, params, SIMULATION_NUMBER, caller, search_vars,
                   first_case_log, edits>>

\* lines 357-364
GatherStatistics ==
    /\ pc = "statistics"
    /\ engine' = gathered(engine, cities)
    /\ pc' = "idle"
    /\ turn_log' = Append(turn_log, <<"statistics", 0>>)
    /\ UNCHANGED <<cities, treatments, params, SIMULATION_NUMBER, cur, caller,
                   search_vars, first_case_log, edits>>

-----------------------------------------------------------------------------
(* __main__ *)

\* line 614
MainSetInitialState ==
    /\ pc = "set_initial_state"
    /\ cities' = seeded_cities(SIMULATION_NUMBER, cities)
    /\ treatments' = seeded_treatments(SIMULATION_NUMBER)
    /\ pc' = IF SIMULATION_NUMBER = 4 THEN "find_best_config" ELSE "idle"
    /\ UNCHANGED <<engine, params, SIMULATION_NUMBER, cur, caller, search_vars,
                   turn_log, first_case_log, edits>>

-----------------------------------------------------------------------------
(* find_best_config and run_simulations_get_deaths *)

\* the neighbour set of every city
neighbour_sets(cs) == [c \in DOMAIN cs |-> cs[c].neighbours]

\* the (city, neighbour) connection the loop at depth d is at
connection(d) == <<loop_city[d], loop_neighbours[d][loop_index[d]]>>

\* the dict literal {city1: neighbour1, city2: neighbour2, city3: neighbour3}:
\* a later entry with the same key replaces the earlier one
config_dict(triple) ==
    [c \in {triple[k][1] : k \in 1..Len(triple)} |->
       triple[CHOOSE k \in 1..Len(triple) :
                 triple[k][1] = c /\ \A j \in (k + 1)..Len(triple) : triple[j][1] # c][2]]

\* faulty variant: a trial that ties with the minimum replaces it
is_new_minimum_or_equal(deaths, minimum) == LessThan(deaths, minimum) \/ deaths = minimum

\* line 580
is_new_minimum(deaths, minimum) == LessThan(deaths, minimum)

\* lines 563-564, and the first `for city1`
FindBestConfig ==
    /\ pc = "find_best_config"
    /\ minimum_deaths' = Infinity
    /\ minimum_deaths_config' = <<>>
    /\ baseline' = neighbour_sets(cities)
    /\ depth' = 1
    /\ loop_city' = <<1, 0, 0>>
    /\ pc' = "for_city"
    /\ UNCHANGED <<cities, treatments, engine, params, SIMULATION_NUMBER, cur,
                   caller, loop_neighbours, loop_index, trial_deaths, best_trial,
                   best_triple, best_neighbours, turn_log, first_case_log, edits>>

\* lines 568, 572, 576: the loop over cities is at a city; list its neighbours
SearchCity ==
    /\ pc = "for_city"
    /\ loop_city[depth] <= N
    /\ \E nbrs \in get_neighbours(cities, loop_city[depth]) :
          loop_neighbours' = [loop_neighbours EXCEPT ![depth] = nbrs]
    /\ loop_index' = [loop_index EXCEPT ![depth] = 1]
    /\ pc' = "for_neighbour"
    /\ UNCHANGED <<cities, treatments, engine, params, SIMULATION_NUMBER, cur,
                   caller, depth, loop_city, minimum_deaths, minimum_deaths_config,
                   baseline, trial_deaths, best_trial, best_triple, best_neighbours,
                   turn_log, first_case_log, edits>>

\* lines 569, 573, 577: remove the connection, then enter the loop inside
SearchRemove ==
    /\ pc = "for_neighbour"
    /\ loop_index[depth] <= Len(loop_neighbours[depth])
    /\ cities' = remove_neighbour(cities, connection(depth)[1], connection(depth)[2])
    /\ IF depth < 3
       THEN /\ depth' = depth + 1
            /\ loop_city' = [loop_city EXCEPT ![depth + 1] = 1]
            /\ pc' = "for_city"
       ELSE /\ pc' = "run_simulations_get_deaths"
            /\ UNCHANGED <<depth, loop_city>>
    /\ UNCHANGED <<treatments, engine, params, SIMULATION_NUMBER, cur, caller,
                   loop_neighbours, loop_index, minimum_deaths, minimum_deaths_config,
                   baseline, trial_deaths, best_trial, best_triple, best_neighbours,
                   turn_log, first_case_log, edits>>

\* the list of neighbours is exhausted: the next city of the same loop
SearchNextCity ==
    /\ pc = "for_neighbour"
    /\ loop_index[depth] > Len(loop_neighbours[depth])
    /\ loop_city' = [loop_city EXCEPT ![depth] = @ + 1]
    /\ pc' = "for_city"
    /\ UNCHANGED <<cities, treatments, engine, params, SIMULATION_NUMBER, cur,
                   caller, depth, loop_neighbours, loop_index, minimum_deaths,
                   minimum_deaths_config, baseline, trial_deaths, best_trial,
                   best_triple, best_neighbours, turn_log, first_case_log, edits>>

\* lines 590, 591: an inner loop over cities is exhausted; restore the connection
\* of the loop around it and go on with that loop's next neighbour
SearchRestore ==
    /\ pc = "for_city"
    /\ loop_city[depth] > N
    /\ depth > 1
    /\ cities' = add_neighbour(cities, connection(depth - 1)[1], connection(depth - 1)[2])
    /\ loop_index' = [loop_index EXCEPT ![depth - 1] = @ + 1]
    /\ depth' = depth - 1
    /\ pc' = "for_neighbour"
    /\ UNCHANGED <<treatments, engine, params, SIMULATION_NUMBER, cur, caller,
                   loop_city, loop_neighbours, minimum_deaths, minimum_deaths_config,
                   baseline, trial_deaths, best_trial, best_triple, best_neighbours,
                   turn_log, first_case_log, edits>>

\* line 593: the outermost loop is exhausted
SearchReturn ==
    /\ pc = "for_city"
    /\ loop_city[depth] > N
    /\ depth = 1
    /\ pc' = "apply_config"
    /\ UNCHANGED <<cities, treatments, engine, params, SIMULATION_NUMBER, cur,
                   caller, search_vars, turn_log, first_case_log, edits>>

\* lines 550-553
RunSimulationsGetDeaths ==
    /\ pc = "run_simulations_get_deaths"
    /\ cities' = seeded_cities(SIMULATION_NUMBER, reset_cities(cities))
    /\ treatments' = seeded_treatments(SIMULATION_NUMBER)
    /\ engine' = Engine(FALSE)
    /\ caller' = "run_simulations_get_deaths"
    /\ pc' = "idle"
    /\ first_case_log' = [c \in DOMAIN cities |-> <<>>]
    /\ UNCHANGED edits
    /\ UNCHANGED <<params, SIMULATION_NUMBER, cur, search_vars, turn_log>>

\* line 556 and lines 579-589
TrialDone ==
    /\ pc = "idle"
    /\ caller = "run_simulations_get_deaths"
    /\ engine.turn_number >= SIMULATION_ITERATIONS
    /\ LET deaths == engine.deaths[Len(engine.deaths)]
           triple == <<connection(1), connection(2), connection(3)>>
       IN  /\ trial_deaths' = Append(trial_deaths, deaths)
           /\ IF is_new_minimum(deaths, minimum_deaths)
              THEN /\ minimum_deaths' = deaths
                   /\ minimum_deaths_config' = config_dict(triple)
                   /\ best_trial' = Len(trial_deaths) + 1
                   /\ best_triple' = triple
                   /\ best_neighbours' = neighbour_sets(cities)
              ELSE UNCHANGED <<minimum_deaths, minimum_deaths_config, best_trial,
                               best_triple, best_neighbours>>
    /\ cities' = add_neighbour(cities, connection(3)[1], connection(3)[2])
    /\ loop_index' = [loop_index EXCEPT ![3] = @ + 1]
    /\ pc' = "for_neighbour"
    /\ UNCHANGED <<treatments, engine, params, SIMULATION_NUMBER, cur, caller,
                   depth, loop_city, loop_neighbours, baseline, turn_log, first_case_log, edits>>

\* the loop of lines 630-631 over the items of the dict
RECURSIVE remove_config(_, _, _)
remove_config(cs, config, keys) ==
    IF keys = {}
    THEN cs
    ELSE LET c == CHOOSE k \in keys : TRUE
         IN  remove_config(remove_neighbour(cs, c, config[c]), config, keys \ {c})

\* lines 628-631; the engine that runs from here on is the one of line 611
MainApplyConfig ==
    /\ pc = "apply_config"
    /\ cities' = remove_config(seeded_cities(SIMULATION_NUMBER, reset_cities(cities)),
                               minimum_deaths_config, DOMAIN minimum_deaths_config)
    /\ treatments' = seeded_treatments(SIMULATION_NUMBER)
    /\ engine' = Engine(TRUE)
    /\ caller' = "animate_map"
    /\ pc' = "idle"
    /\ first_case_log' = [c \in DOMAIN cities |-> <<>>]
    /\ UNCHANGED edits
    /\ UNCHANGED <<params, SIMULATION_NUMBER, cur, search_vars, turn_log>>

-----------------------------------------------------------------------------

Next ==
    \/ MainSetInitialState
    \/ EngineRunTurn
    \/ StartOfTurn
    \/ MoveInfected
    \/ ChangeInInfectedNumbers
    \/ SpreadInfection
    \/ TreatmentRunTurn
    \/ GatherStatistics
    \/ FindBestConfig
    \/ SearchCity
    \/ SearchRemove
    \/ SearchNextCity
    \/ SearchRestore
    \/ SearchReturn
    \/ RunSimulationsGetDeaths
    \/ TrialDone
    \/ MainApplyConfig

Spec == Init /\ [][Next]_vars

-----------------------------------------------------------------------------
(* The engine under any settings of the valid ranges *)

\* The values the settings of lines 42-48 are given: each rate at both ends of
\* the range its comment allows and at a value inside it, an average duration
\* below 1 included; treatment units that move and that stay; a run to completion
\* and a run stopped after a number of turns.
Settings ==
    [STOPPING_CONDITIONS : {0, 6},
     TREATMENT_MOVEMENT : BOOLEAN,
     TREATMENT_LIMIT : {15},
     MORTALITY_RATE : {<<0, 1>>, <<1, 2>>, <<1, 1>>},
     INFECTION_RATE : {<<0, 1>>, <<1, 2>>, <<2, 1>>},
     MOVEMENT_PROPORTION : {<<0, 1>>, <<1, 2>>, <<1, 1>>},
     AVERAGE_DURATION : {<<1, 2>>, <<1, 1>>, <<4, 1>>}]

\* The city files, the seeded cases (per city) and the cities of the treatment
\* units the engine is started on: two cities of 1000 with 100 cases in the
\* first; a path and a triangle with units; a city without inhabitants, next to
\* the cases and with the cases in it
Outbreaks ==
    { [populations |-> <<1000, 1000>>, connections |-> {<<1, 2>>},
       cases |-> <<100, 0>>, units |-> <<>>],
      [populations |-> <<MaxPopulation, 40, 25>>, connections |-> {<<1, 2>>, <<2, 3>>},
       cases |-> <<10, 100, 10>>, units |-> <<2, 1>>],
      [populations |-> <<40, MaxPopulation, 40>>,
       connections |-> {<<1, 2>>, <<2, 3>>, <<1, 3>>},
       cases |-> <<50, 0, 45>>, units |-> <<2>>],
      [populations |-> <<0, MaxPopulation, 6>>, connections |-> {<<1, 2>>},
       cases |-> <<0, 10, 0>>, units |-> <<>>],
      [populations |-> <<0, 40>>, connections |-> {<<1, 2>>},
       cases |-> <<8, 0>>, units |-> <<>>] }

\* the state after get_city_data and set_initial_state (lines 459-463) with
\* these settings, cases and units
InitRanges ==
    /\ SIMULATION_NUMBER = 0
    /\ params \in Settings
    /\ \E o \in Outbreaks :
          /\ cities = [c \in DOMAIN o.populations |->
                         [get_city_data(o.populations, o.connections)[c]
                             EXCEPT !.incoming_infected = o.cases[c]]]
          /\ treatments = [k \in DOMAIN o.units |-> TreatmentCentre(o.units[k])]
    /\ engine = Engine(TRUE)
    /\ pc = "idle"
    /\ cur = 0
    /\ caller = "animate_map"
    /\ depth = 0
    /\ loop_city = <<0, 0, 0>>
    /\ loop_neighbours = <<<<>>, <<>>, <<>>>>
    /\ loop_index = <<0, 0, 0>>
    /\ minimum_deaths = Infinity
    /\ minimum_deaths_config = <<>>
    /\ baseline = <<>>
    /\ trial_deaths = <<>>
    /\ best_trial = 0
    /\ best_triple = <<>>
    /\ best_neighbours = <<>>
    /\ turn_log = <<>>
    /\ first_case_log = [c \in DOMAIN cities |-> <<>>]
    /\ edits = <<>>

\* animate_map called again and again
NextTurns ==
    \/ EngineRunTurn
    \/ StartOfTurn
    \/ MoveInfected
    \/ ChangeInInfectedNumbers
    \/ SpreadInfection
    \/ TreatmentRunTurn
    \/ GatherStatistics

SpecRanges == InitRanges /\ [][NextTurns]_vars

-----------------------------------------------------------------------------
(* add_neighbour and remove_neighbour called directly *)

\* the last two of a sequence of calls
LastTwo(s) == IF Len(s) <= 2 THEN s ELSE SubSeq(s, Len(s) - 1, Len(s))

\* a call of `op` on city c with `neighbour`, made on the cities cs
Edit(op, cs, c, neighbour) ==
    [op |-> op, city |-> c, neighbour |-> neighbour,
     before |-> [d \in DOMAIN cs |-> cs[d].neighbours]]

\* the cities of a city file, before anything has run
InitEdits ==
    /\ SIMULATION_NUMBER = 0
    /\ params = get_initial_parameters(SIMULATION_NUMBER)
    /\ \E populations \in Populations, connections \in Graphs :
          cities = get_city_data(populations, connections)
    /\ treatments = <<>>
    /\ engine = Engine(TRUE)
    /\ pc = "edit"
    /\ cur = 0
    /\ caller = "edit"
    /\ depth = 0
    /\ loop_city = <<0, 0, 0>>
    /\ loop_neighbours = <<<<>>, <<>>, <<>>>>
    /\ loop_index = <<0, 0, 0>>
    /\ minimum_deaths = Infinity
    /\ minimum_deaths_config = <<>>
    /\ baseline = <<>>
    /\ trial_deaths = <<>>
    /\ best_trial = 0
    /\ best_triple = <<>>
    /\ best_neighbours = <<>>
    /\ turn_log = <<>>
    /\ first_case_log = [c \in DOMAIN cities |-> <<>>]
    /\ edits = <<>>

\* lines 118-120, for any city and any other city
AddNeighbour ==
    /\ pc = "edit"
    /\ \E c \in Cities, neighbour \in Cities :
          /\ c # neighbour
          /\ cities' = add_neighbour(cities, c, neighbour)
          /\ edits' = LastTwo(Append(edits, Edit("add_neighbour", cities, c, neighbour)))
    /\ UNCHANGED <<treatments, engine, params, SIMULATION_NUMBER, pc, cur, caller,
                   search_vars, turn_log, first_case_log>>

\* lines 122-124, for any city and any other city: the exception is not caught
\* anywhere and ends the program
RemoveNeighbour ==
    /\ pc = "edit"
    /\ \E c \in Cities, neighbour \in Cities :
          /\ c # neighbour
          /\ edits' = LastTwo(Append(edits, Edit("remove_neighbour", cities, c, neighbour)))
          /\ IF KeyError(cities, c, neighbour)
             THEN pc' = "KeyError" /\ UNCHANGED cities
             ELSE cities' = remove_neighbour(cities, c, neighbour) /\ UNCHANGED pc
    /\ UNCHANGED <<treatments, engine, params, SIMULATION_NUMBER, cur, caller,
                   search_vars, turn_log, first_case_log>>

NextEdits == AddNeighbour \/ RemoveNeighbour

SpecEdits == InitEdits /\ [][NextEdits]_vars

-----------------------------------------------------------------------------
(* The search on four cities, each connected to every other *)

\* the connection lines of that graph
FullyConnected == {<<1, 2>>, <<1, 3>>, <<1, 4>>, <<2, 3>>, <<2, 4>>, <<3, 4>>}

\* the populations of its city file
Populations4 == { <<MaxPopulation, 40, 25, 60>>, <<0, MaxPopulation, 6, 50>> }

\* the state after get_city_data, with SIMULATION_NUMBER = 4
InitSearch ==
    /\ SIMULATION_NUMBER = 4
    /\ params = get_initial_parameters(SIMULATION_NUMBER)
    /\ \E populations \in Populations4 :
          cities = get_city_data(populations, FullyConnected)
    /\ treatments = <<>>
    /\ engine = Engine(TRUE)
    /\ pc = "set_initial_state"
    /\ cur = 0
    /\ caller = "animate_map"
    /\ depth = 0
    /\ loop_city = <<0, 0, 0>>
    /\ loop_neighbours = <<<<>>, <<>>, <<>>>>
    /\ loop_index = <<0, 0, 0>>
    /\ minimum_deaths = Infinity
    /\ minimum_deaths_config = <<>>
    /\ baseline = <<>>
    /\ trial_deaths = <<>>
    /\ best_trial = 0
    /\ best_triple = <<>>
    /\ best_neighbours = <<>>
    /\ turn_log = <<>>
    /\ first_case_log = [c \in DOMAIN cities |-> <<>>]
    /\ edits = <<>>

\* lines 568, 572, 576, under a hash seed with which every neighbour set yields
\* its cities in the order of the `cities` dict: one of the lists of get_neighbours
SearchCityInOrder ==
    /\ pc = "for_city"
    /\ loop_city[depth] <= N
    /\ loop_neighbours' =
          [loop_neighbours EXCEPT ![depth] = InOrder(cities[loop_city[depth]].neighbours)]
    /\ loop_index' = [loop_index EXCEPT ![depth] = 1]
    /\ pc' = "for_neighbour"
    /\ UNCHANGED <<cities, treatments, engine, params, SIMULATION_NUMBER, cur,
                   caller, depth, loop_city, minimum_deaths, minimum_deaths_config,
                   baseline, trial_deaths, best_trial, best_triple, best_neighbours,
                   turn_log, first_case_log, edits>>

\* lines 554-555: the SIMULATION_ITERATIONS turns of temp_engine, as one step
TempEngineRunTurns ==
    /\ pc = "idle"
    /\ caller = "run_simulations_get_deaths"
    /\ engine.turn_number = 0
    /\ \E run \in {run_turns([cities |-> cities, treatments |-> treatments,
                               engine |-> engine], SIMULATION_ITERATIONS)} :
          /\ cities' = run.cities
          /\ treatments' = run.treatments
          /\ engine' = run.engine
    /\ UNCHANGED <<params, SIMULATION_NUMBER, pc, cur, caller, search_vars,
                   turn_log, first_case_log, edits>>

NextSearch ==
    \/ MainSetInitialState
    \/ FindBestConfig
    \/ SearchCityInOrder
    \/ SearchRemove
    \/ SearchNextCity
    \/ SearchRestore
    \/ SearchReturn
    \/ RunSimulationsGetDeaths
    \/ TempEngineRunTurns
    \/ TrialDone
    \/ MainApplyConfig

SpecSearch == InitSearch /\ [][NextSearch]_vars

-----------------------------------------------------------------------------
(* Engine.run_turn called without end *)

\* the settings of the ranges with an average duration of 1 or more and no
\* limit on the number of turns
SettingsToExtinction ==
    {s \in Settings : /\ s.AVERAGE_DURATION[1] >= s.AVERAGE_DURATION[2]
                      /\ s.STOPPING_CONDITIONS = 0}

\* as InitRanges, under those settings
InitRepeat ==
    /\ SIMULATION_NUMBER = 0
    /\ params \in SettingsToExtinction
    /\ \E o \in Outbreaks :
          /\ cities = [c \in DOMAIN o.populations |->
                         [get_city_data(o.populations, o.connections)[c]
                             EXCEPT !.incoming_infected = o.cases[c]]]
          /\ treatments = [k \in DOMAIN o.units |-> TreatmentCentre(o.units[k])]
    /\ engine = Engine(TRUE)
    /\ pc = "idle"
    /\ cur = 0
    /\ caller = "run_turn"
    /\ depth = 0
    /\ loop_city = <<0, 0, 0>>
    /\ loop_neighbours = <<<<>>, <<>>, <<>>>>
    /\ loop_index = <<0, 0, 0>>
    /\ minimum_deaths = Infinity
    /\ minimum_deaths_config = <<>>
    /\ baseline = <<>>
    /\ trial_deaths = <<>>
    /\ best_trial = 0
    /\ best_triple = <<>>
    /\ best_neighbours = <<>>
    /\ turn_log = <<>>
    /\ first_case_log = [c \in DOMAIN cities |-> <<>>]
    /\ edits = <<>>

\* Engine.run_turn as far as the cities and the treatment units go, the
\* neighbours of a unit listed in the order of the `cities` dict.  The turn
\* number and the series of the engine, which no city and no unit reads, are
\* not kept, so that a turn that leaves the cities as an earlier one did leads
\* back to the same state.
RunTurnRepeated ==
    /\ pc = "idle"
    /\ \E run \in {run_turn([cities |-> cities, treatments |-> treatments,
                              engine |-> engine])} :
          /\ cities' = run.cities
          /\ treatments' = run.treatments
    /\ UNCHANGED <<engine, params, SIMULATION_NUMBER, pc, cur, caller, search_vars,
                   turn_log, first_case_log, edits>>

\* whoever calls Engine.run_turn calls it again
SpecRepeat == InitRepeat /\ [][RunTurnRepeated]_vars /\ WF_vars(RunTurnRepeated)

-----------------------------------------------------------------------------
(* Vocabulary of the properties *)

Min(a, b) == IF a <= b THEN a ELSE b

Last(s) == s[Len(s)]

\* healthy_population + infected + survivors + cured + dead of one city
HeadCount(city) ==
    city.healthy_population + city.infected + city.survivors + city.cured + city.dead

\* the cases set_initial_state seeds, over all cities
SeededCases == SumOf(seeded_cities(SIMULATION_NUMBER, reset_cities(cities)),
                     "incoming_infected")

\* the positions inside Engine.run_turn
EnginePhases == {"start_of_turn", "move_infected", "change_in_infected_numbers",
                 "spread_infection", "treatment", "statistics"}

\* an Engine.run_turn has just returned
EndOfTurn == pc = "idle" /\ engine.turn_number > 0

\* run_simulations_get_deaths is being called or is running
InTrial ==
    \/ pc = "run_simulations_get_deaths"
    \/ caller = "run_simulations_get_deaths" /\ pc \in EnginePhases \cup {"idle"}

\* the three connections removed for the trial the search is at
CurrentTriple == {connection(1), connection(2), connection(3)}

\* the steps that reset the cities: reset_cities in run_simulations_get_deaths
\* and in __main__
ResetStep == pc \in {"run_simulations_get_deaths", "apply_config"}

-----------------------------------------------------------------------------
(* C1 *)

\* C1, as stated: at the end of every Engine.run_turn every city has
\* healthy_population + infected + survivors + cured + dead = initial_population.
C1_PopulationConservation ==
    EndOfTurn => \A c \in Cities : HeadCount(cities[c]) = cities[c].initial_population

\* C1, amended: at the end of every Engine.run_turn the sum over all cities of
\* healthy_population + infected + incoming_infected + survivors + cured + dead
\* equals the sum of the initial populations plus the seeded cases.
C1_TotalConservation ==
    EndOfTurn =>
       SumOf(cities, "healthy_population") + SumOf(cities, "infected")
         + SumOf(cities, "incoming_infected") + SumOf(cities, "survivors")
         + SumOf(cities, "cured") + SumOf(cities, "dead")
       = SumOf(cities, "initial_population") + SeededCases

\* a turn has ended in which cases are in transit, a city holds more than its
\* initial population and another city has dead, survivors and (treated) cured
C1_Witness ==
    /\ EndOfTurn
    /\ engine.turn_number >= 2
    /\ \E c \in Cities : cities[c].incoming_infected > 0
    /\ \E c \in Cities : HeadCount(cities[c]) > cities[c].initial_population
    /\ \E c \in Cities : cities[c].dead > 0 /\ cities[c].survivors > 0
    /\ \E c \in Cities : cities[c].cured > 0

-----------------------------------------------------------------------------
(* C2 *)

\* C2, as stated: in every reachable state B is a neighbour of A exactly when A
\* is a neighbour of B.
C2_NeighbourSymmetry ==
    \A a, b \in Cities : b \in cities[a].neighbours <=> a \in cities[b].neighbours

-----------------------------------------------------------------------------
(* C3 *)

\* C3: while run_simulations_get_deaths is called and runs, every city's
\* neighbour set is its baseline set minus the three distinct connections of the
\* current triple, each of them a connection of the baseline; and when
\* find_best_config returns every neighbour set is the baseline one.
C3_TrialIsolation ==
    /\ InTrial =>
          /\ Cardinality(CurrentTriple) = 3
          /\ \A e \in CurrentTriple : e[2] \in baseline[e[1]]
          /\ \A c \in Cities :
                cities[c].neighbours = baseline[c] \ {e[2] : e \in {x \in CurrentTriple : x[1] = c}}
    /\ pc = "apply_config" => neighbour_sets(cities) = baseline

\* find_best_config returns after trials in which one city lost two connections
C3_Witness ==
    /\ pc = "apply_config"
    /\ Len(trial_deaths) > 1
    /\ \E c \in Cities : Cardinality(baseline[c]) >= 2

-----------------------------------------------------------------------------
(* C4 *)

\* C4: once a trial has run, the remembered minimum is the death count of the
\* remembered trial, no trial enumerated so far has a smaller count, and no
\* trial before the remembered one has the same count.
C4_SearchMinimum ==
    Len(trial_deaths) > 0 =>
       /\ best_trial \in 1..Len(trial_deaths)
       /\ trial_deaths[best_trial] = minimum_deaths
       /\ \A k \in 1..Len(trial_deaths) : minimum_deaths <= trial_deaths[k]
       /\ \A k \in 1..(best_trial - 1) : trial_deaths[k] > minimum_deaths
       /\ minimum_deaths_config = config_dict(best_triple)

\* the search has ended, the best trial was not the first one and a later trial
\* tied with it
C4_Witness ==
    /\ pc = "apply_config"
    /\ best_trial > 1
    /\ \E k \in (best_trial + 1)..Len(trial_deaths) : trial_deaths[k] = minimum_deaths

-----------------------------------------------------------------------------
(* C5 *)

\* C5, as stated: after the driver has removed the returned connections from
\* the baseline graph, the neighbour sets are the ones the winning trial ran on.
C5_WinningTripleIntact ==
    (SIMULATION_NUMBER = 4 /\ pc = "idle" /\ caller = "animate_map" /\ best_trial > 0) =>
       neighbour_sets(cities) = best_neighbours

-----------------------------------------------------------------------------
(* C6 *)

\* the calls logged before position i of the running turn
Before(i) == {turn_log[j] : j \in 1..(i - 1)}

\* C6: in the calls of every Engine.run_turn, a city's run_turn starts only
\* after start_of_turn has run on every city, a treatment unit's run_turn only
\* after every city's run_turn has ended, and the sums are appended only
\* after every treatment unit has run; until then the series are one short.
C6_PhaseOrdering ==
    /\ \A i \in DOMAIN turn_log :
          /\ turn_log[i][1] = "run_turn" =>
                \A c \in Cities : <<"start_of_turn", c>> \in Before(i)
          /\ turn_log[i][1] = "treatment" =>
                \A c \in Cities : <<"run_turn_end", c>> \in Before(i)
          /\ turn_log[i][1] = "statistics" =>
                /\ \A c \in Cities : <<"run_turn_end", c>> \in Before(i)
                /\ \A t \in DOMAIN treatments : <<"treatment", t>> \in Before(i)
    /\ Len(engine.deaths) = engine.turn_number =>
          (engine.turn_number > 0 => <<"statistics", 0>> \in Before(Len(turn_log) + 1))

\* a turn with three treatment units has run to its end
C6_Witness ==
    /\ EndOfTurn
    /\ Len(treatments) = 3
    /\ Len(turn_log) = 3 * N + Len(treatments) + 1
    /\ Last(turn_log) = <<"statistics", 0>>

-----------------------------------------------------------------------------
(* C7 *)

Series == <<engine.healthy_population, engine.infected, engine.survivors,
            engine.deaths, engine.cured>>

\* C7: between calls of Engine.run_turn each of the five series has
\* turn_number entries, and after a call the last entry of each is the sum of
\* that counter over the cities; during a call each series has turn_number - 1.
C7_TimeSeries ==
    /\ pc \notin EnginePhases =>
          \A k \in 1..5 : Len(Series[k]) = engine.turn_number
    /\ pc \in EnginePhases =>
          \A k \in 1..5 : Len(Series[k]) = engine.turn_number - 1
    /\ EndOfTurn =>
          /\ Last(engine.healthy_population) = SumOf(cities, "healthy_population")
          /\ Last(engine.infected) = SumOf(cities, "infected")
          /\ Last(engine.survivors) = SumOf(cities, "survivors")
          /\ Last(engine.deaths) = SumOf(cities, "dead")
          /\ Last(engine.cured) = SumOf(cities, "cured")

\* several turns have run and the five sums of the last one differ pairwise
C7_Witness ==
    /\ EndOfTurn
    /\ engine.turn_number >= 3
    /\ \A j, k \in 1..5 : j # k => Last(Series[j]) # Last(Series[k])
    /\ \A k \in 1..5 : Last(Series[k]) > 0

-----------------------------------------------------------------------------
(* C8 *)

\* C8: a TreatmentCentre.run_turn cures min(infected, treatment_remaining) at
\* the city the unit is at after its move: infected falls, cured and the
\* capacity used rise by that amount, nothing else of any city changes, a unit
\* with no capacity left changes no city, and treatment_remaining is never
\* negative.
C8_TreatmentAccounting ==
    /\ [](\A t \in DOMAIN treatments : treatments[t].treatment_remaining >= 0)
    /\ [][pc = "treatment" =>
            LET at == treatments'[cur].city
                n == Min(cities[at].infected, treatments[cur].treatment_remaining)
            IN  /\ cities' = [cities EXCEPT ![at].infected = @ - n, ![at].cured = @ + n]
                /\ treatments'[cur].treatment_remaining =
                      treatments[cur].treatment_remaining - n
                /\ \A t \in DOMAIN treatments \ {cur} : treatments'[t] = treatments[t]
                /\ treatments[cur].treatment_remaining = 0 => cities' = cities]_vars

\* a unit has just moved to another city and used up its capacity there while
\* infected remain, and another unit still has capacity
C8_Witness ==
    /\ turn_log # <<>>
    /\ Last(turn_log)[1] = "treatment"
    /\ LET t == Last(turn_log)[2]
       IN  /\ treatments[t].treatment_remaining = 0
           /\ treatments[t].city # state_dict[SIMULATION_NUMBER].units[t]
           /\ cities[treatments[t].city].infected > 0
           /\ cities[treatments[t].city].cured > 0
    /\ \E t \in DOMAIN treatments :
          treatments[t].treatment_remaining \in 1..(params.TREATMENT_LIMIT - 1)

-----------------------------------------------------------------------------
(* C9 *)

InfectedAndIncoming(cs) == SumOf(cs, "infected") + SumOf(cs, "incoming_infected")

\* C9: move_infected leaves the sum over all cities of infected +
\* incoming_infected unchanged; with n > 0 neighbours every neighbour's
\* incoming_infected grows by floor(floor(infected * MOVEMENT_PROPORTION) / n),
\* the source's infected shrinks by n times that, and nothing else changes.
C9_MovementConservation ==
    [][pc = "move_infected" =>
         LET n == Cardinality(cities[cur].neighbours)
             moving == (cities[cur].infected * params.MOVEMENT_PROPORTION[1])
                          \div params.MOVEMENT_PROPORTION[2]
         IN  /\ InfectedAndIncoming(cities') = InfectedAndIncoming(cities)
             /\ n = 0 => cities' = cities
             /\ n > 0 =>
                   /\ cities'[cur] =
                         [cities[cur] EXCEPT !.infected = @ - n * (moving \div n)]
                   /\ \A d \in Cities \ {cur} :
                         cities'[d] =
                            IF d \in cities[cur].neighbours
                            THEN [cities[d] EXCEPT !.incoming_infected = @ + (moving \div n)]
                            ELSE cities[d]]_vars

\* the first city of the turn has two neighbours and has just sent cases to both
C9_Witness ==
    /\ pc = "change_in_infected_numbers"
    /\ Cardinality(cities[cur].neighbours) = 2
    /\ cities[cur].infected > 0
    /\ cur = 1
    /\ \A d \in cities[cur].neighbours : cities[d].incoming_infected > 0

-----------------------------------------------------------------------------
(* C10 *)

\* C10: in every step that is not a reset of the cities, no city's dead,
\* cured or survivors decreases.
C10_Monotonicity ==
    [][~ResetStep =>
         \A c \in Cities :
            /\ cities'[c].dead >= cities[c].dead
            /\ cities'[c].cured >= cities[c].cured
            /\ cities'[c].survivors >= cities[c].survivors]_vars

\* turns have run in which a city's dead, cured and survivors all grew
C10_Witness ==
    /\ EndOfTurn
    /\ engine.turn_number >= 2
    /\ \E c \in Cities :
          cities[c].dead > 0 /\ cities[c].cured > 0 /\ cities[c].survivors > 0
    /\ Len(engine.deaths) >= 2
    /\ engine.deaths[Len(engine.deaths)] > engine.deaths[Len(engine.deaths) - 1]

-----------------------------------------------------------------------------
(* C11 *)

\* C11, as stated: with settings in their valid ranges (an average duration
\* below 1 included) and non-negative seeded cases, infected, incoming_infected,
\* survivors, cured, dead and healthy_population of every city are >= 0 in every
\* reachable state, the states between the phases of a turn included.
C11_NonNegativeCounters ==
    \A c \in Cities :
       /\ cities[c].infected >= 0
       /\ cities[c].incoming_infected >= 0
       /\ cities[c].survivors >= 0
       /\ cities[c].cured >= 0
       /\ cities[c].dead >= 0
       /\ cities[c].healthy_population >= 0

-----------------------------------------------------------------------------
(* C12 *)

\* the scenario set up again on the graph the running engine is on: lines 611-614
Rerun ==
    [cities |-> seeded_cities(SIMULATION_NUMBER, reset_cities(cities)),
     treatments |-> seeded_treatments(SIMULATION_NUMBER),
     engine |-> Engine(TRUE)]

\* the series of a run
SeriesOf(run) ==
    <<run.engine.healthy_population, run.engine.infected, run.engine.survivors,
      run.engine.deaths, run.engine.cured>>

\* C12, as stated: two runs of the same scenario from the same graph produce
\* the same series turn by turn, whatever order the neighbour sets are iterated
\* in.  One of the runs is the one that iterates every set in the order of the
\* city mapping, so every run of the scenario has that run's series.
C12_ScenarioDeterminism ==
    (EndOfTurn /\ caller = "animate_map") =>
       Series = SeriesOf(run_turns(Rerun, engine.turn_number))

-----------------------------------------------------------------------------
(* C13 *)

\* C13: in every TreatmentCentre.run_turn, with TREATMENT_MOVEMENT the unit
\* ends in its city or a direct neighbour of it, in one whose infected count
\* is the largest among them, and in its own city when no neighbour has strictly
\* more infected; without TREATMENT_MOVEMENT it stays; no other unit moves.
C13_MostAffectedChoice ==
    [][pc = "treatment" =>
         LET from == treatments[cur].city
             to == treatments'[cur].city
             around == {from} \cup cities[from].neighbours
         IN  /\ params.TREATMENT_MOVEMENT =>
                   /\ to \in around
                   /\ \A d \in around : cities[to].infected >= cities[d].infected
                   /\ (\A d \in around : cities[d].infected <= cities[from].infected)
                         => to = from
             /\ ~params.TREATMENT_MOVEMENT => to = from
             /\ \A t \in DOMAIN treatments \ {cur} :
                   treatments'[t].city = treatments[t].city]_vars

\* in the first turn the first unit, set up at city 2, has moved to a neighbour
\* and treated there, and cases remain both there and in another neighbour
C13_Witness ==
    /\ params.TREATMENT_MOVEMENT
    /\ engine.turn_number = 1
    /\ turn_log # <<>>
    /\ Last(turn_log) = <<"treatment", 1>>
    /\ treatments[1].city # 2
    /\ cities[treatments[1].city].cured > 0
    /\ \E d \in cities[2].neighbours \ {treatments[1].city} :
          /\ cities[d].infected > cities[2].infected
          /\ cities[d].infected
                < cities[treatments[1].city].infected + cities[treatments[1].city].cured

-----------------------------------------------------------------------------
(* C14 *)

\* the calls of first_case() on city c, since the last reset, that returned true
FirstCases(c) == {i \in DOMAIN first_case_log[c] : first_case_log[c][i][2]}

\* first_case() saw city c infected, later without infected, later infected again
SeenReinfected(c) ==
    \E i, j, k \in DOMAIN first_case_log[c] :
       /\ i < j /\ j < k
       /\ first_case_log[c][i][1] > 0
       /\ first_case_log[c][j][1] = 0
       /\ first_case_log[c][k][1] > 0

\* C14: over the turns since the last reset, first_case() being called once per
\* city per turn, it has returned true for a city at most once: at the first call
\* that saw infected > 0 and at no other; so it has returned true exactly once
\* for a city it saw infected, then with no infected, then infected again.
C14_FirstCaseLatch ==
    \A c \in Cities :
       /\ Cardinality(FirstCases(c)) <= 1
       /\ \A i \in DOMAIN first_case_log[c] :
             first_case_log[c][i][2] <=>
                /\ first_case_log[c][i][1] > 0
                /\ \A j \in 1..(i - 1) : first_case_log[c][j][1] <= 0
       /\ SeenReinfected(c) => Cardinality(FirstCases(c)) = 1
       /\ engine.logger /\ pc \notin EnginePhases =>
             Len(first_case_log[c]) = engine.turn_number

\* a city was seen infected, then without infected, then infected again
C14_Witness == \E c \in Cities : SeenReinfected(c)

-----------------------------------------------------------------------------
(* C15 *)

\* the counters of city c show that it has had infected > 0 since the last reset:
\* cases are in it, or cases of it were resolved or treated
HasBeenInfected(c) ==
    \/ cities[c].infected > 0
    \/ cities[c].survivors > 0
    \/ cities[c].dead > 0
    \/ cities[c].cured > 0

\* C15, as stated: once a city's infected count has been positive, ever_infected
\* is true, also when the cases arrived and were all resolved within one turn and
\* when the engine has no logger; so infection_free() returns true whenever the
\* city was infected earlier and has no infected now.  Stated of the states
\* between two turns.
C15_EverInfectedLatched ==
    EndOfTurn =>
       \A c \in Cities :
          HasBeenInfected(c) =>
             /\ cities[c].ever_infected
             /\ cities[c].infected = 0 => infection_free(cities, c)

-----------------------------------------------------------------------------
(* C16 *)

\* the neighbour sets after removing the connection from a to b and that
\* from b to a, then adding both back
Reconnected(a, b) ==
    neighbour_sets(add_neighbour(add_neighbour(
        remove_neighbour(remove_neighbour(cities, a, b), b, a), a, b), b, a))

\* C16: a connection of a city that is removed and then added back leaves the
\* neighbour set of every city as it was before the removal; so does removing
\* both directions of the connection of a pair and adding both back.
C16_RestoreRoundTrip ==
    /\ (/\ Len(edits) = 2
        /\ edits[1].op = "remove_neighbour"
        /\ edits[1].neighbour \in edits[1].before[edits[1].city]
        /\ edits[2].op = "add_neighbour"
        /\ edits[2].city = edits[1].city
        /\ edits[2].neighbour = edits[1].neighbour)
          => neighbour_sets(cities) = edits[1].before
    /\ \A a, b \in Cities :
          (b \in cities[a].neighbours /\ a \in cities[b].neighbours)
             => Reconnected(a, b) = neighbour_sets(cities)

\* a connection between two cities connected in both directions was removed,
\* which changed a neighbour set, and was added back
C16_Witness ==
    /\ Len(edits) = 2
    /\ edits[1].op = "remove_neighbour"
    /\ edits[1].neighbour \in edits[1].before[edits[1].city]
    /\ edits[1].city \in edits[1].before[edits[1].neighbour]
    /\ edits[2].op = "add_neighbour"
    /\ edits[2].city = edits[1].city
    /\ edits[2].neighbour = edits[1].neighbour
    /\ edits[2].before # edits[1].before
    /\ pc = "edit"

-----------------------------------------------------------------------------
(* C17 *)

\* C17, as stated: removing a connection that is not there, and adding one
\* that is there, leave every neighbour set as it was and raise no error.
C17_IdempotentEdits ==
    edits # <<>> =>
       LET last == Last(edits)
           present == last.neighbour \in last.before[last.city]
       IN  \/ (last.op = "remove_neighbour" /\ ~present)
           \/ (last.op = "add_neighbour" /\ present)
           => neighbour_sets(cities) = last.before /\ pc # "KeyError"

-----------------------------------------------------------------------------
(* C18 *)

\* the cases the rule resolves of i >= 0 infected
Resolved(i) ==
    CASE i > 5 -> Max((i * params.AVERAGE_DURATION[2]) \div params.AVERAGE_DURATION[1], 5)
      [] i > 0 /\ i <= 5 -> i
      [] i = 0 -> 0

\* two connected cities of 1000 with 100 cases seeded in the first, no infection,
\* no movement, an average duration of 4 and a mortality of 0.5
ResolutionInstance ==
    /\ N = 2
    /\ cities[1].initial_population = 1000 /\ cities[2].initial_population = 1000
    /\ cities[1].neighbours = {2} /\ cities[2].neighbours = {1}
    /\ params.INFECTION_RATE = <<0, 1>>
    /\ params.MOVEMENT_PROPORTION = <<0, 1>>
    /\ params.AVERAGE_DURATION = <<4, 1>>
    /\ params.MORTALITY_RATE = <<1, 2>>

\* C18: change_in_infected_numbers on a city with i infected resolves r cases,
\* r = max(floor(i / AVERAGE_DURATION), 5) if i > 5, r = i if 0 < i <= 5, r = 0
\* if i = 0: infected decreases by r, dead increases by floor(r * MORTALITY_RATE),
\* survivors by r minus that, and nothing else changes in any city.  In the
\* instance, after turn 1 the first city has 75 infected, 13 survivors and
\* 12 dead and the second has no infected.
C18_ResolutionRule ==
    [][/\ (pc = "change_in_infected_numbers" /\ cities[cur].infected >= 0) =>
             LET r == Resolved(cities[cur].infected)
                 die == (r * params.MORTALITY_RATE[1]) \div params.MORTALITY_RATE[2]
             IN  cities' = [cities EXCEPT ![cur].infected = @ - r,
                                          ![cur].dead = @ + die,
                                          ![cur].survivors = @ + (r - die)]
       /\ (ResolutionInstance /\ EndOfTurn' /\ engine'.turn_number = 1) =>
             /\ cities'[1].infected = 75
             /\ cities'[1].survivors = 13
             /\ cities'[1].dead = 12
             /\ cities'[2].infected = 0]_vars

\* the instance after turn 1, the rule having resolved cases in the first city
C18_Witness ==
    /\ ResolutionInstance
    /\ EndOfTurn
    /\ engine.turn_number = 1
    /\ cities[1].survivors + cities[1].dead = 25

-----------------------------------------------------------------------------
(* C20 *)

\* cities as newly created, with the populations and the neighbour sets of the
\* present ones and nothing else of them
Fresh ==
    [c \in Cities |->
       [City(cities[c].initial_population) EXCEPT !.neighbours = cities[c].neighbours]]

\* the last death count of SIMULATION_ITERATIONS turns of the scenario on them
FreshTrialDeaths ==
    Last(run_turns([cities |-> seeded_cities(SIMULATION_NUMBER, Fresh),
                    treatments |-> seeded_treatments(SIMULATION_NUMBER),
                    engine |-> Engine(FALSE)],
                   SIMULATION_ITERATIONS).engine.deaths)

\* a trial of the search has run its turns
TrialEnd ==
    /\ pc = "idle"
    /\ caller = "run_simulations_get_deaths"
    /\ engine.turn_number >= SIMULATION_ITERATIONS

\* C20: the reset at the start of run_simulations_get_deaths leaves every city
\* as newly created, with infected, incoming_infected, survivors, cured and dead
\* 0, healthy_population = initial_population and ever_infected false, and with
\* its initial_population and neighbour set unchanged, before the scenario is
\* seeded; and the death count the trial returns is the one the scenario gives
\* on newly created cities with the same neighbour sets, whatever the counters
\* were before.
C20_ResetAndTrialIndependence ==
    [][/\ pc = "run_simulations_get_deaths" =>
             cities' = seeded_cities(SIMULATION_NUMBER, Fresh)
       /\ TrialEnd => Last(engine.deaths) = FreshTrialDeaths]_vars

\* a trial has run its turns and counted deaths, on cities in which an earlier
\* trial had left deaths
C20_Witness ==
    /\ TrialEnd
    /\ Last(engine.deaths) > 0
    /\ trial_deaths # <<>>
    /\ Last(trial_deaths) > 0

-----------------------------------------------------------------------------
(* C19 *)

\* the undirected edges of the baseline graph
Edges == {e \in Cities \X Cities : e[1] < e[2] /\ e[2] \in baseline[e[1]]}

\* the combinations of 3 of them
Combinations == {T \in SUBSET Edges : Cardinality(T) = 3}

\* newly created cities on the baseline graph without both directions of the
\* edges of T, seeded
WithoutEdges(T) ==
    seeded_cities(SIMULATION_NUMBER,
       [c \in Cities |->
          [City(cities[c].initial_population) EXCEPT !.neighbours =
              baseline[c] \ {d \in Cities : <<c, d>> \in T \/ <<d, c>> \in T}]])

\* the reference's death count of combination T, after the same horizon
ReferenceDeaths(T) ==
    Once(run_turns([cities |-> WithoutEdges(T),
                    treatments |-> seeded_treatments(SIMULATION_NUMBER),
                    engine |-> Engine(FALSE)],
                   SIMULATION_ITERATIONS),
         LAMBDA run : Last(run.engine.deaths))

EdgeBefore(e, f) == e[1] < f[1] \/ (e[1] = f[1] /\ e[2] < f[2])

\* the edges of a combination, in order
RECURSIVE EdgeList(_)
EdgeList(T) ==
    IF T = {}
    THEN <<>>
    ELSE LET first == CHOOSE e \in T : \A f \in T \ {e} : EdgeBefore(e, f)
         IN  <<first>> \o EdgeList(T \ {first})

\* every combination with its edges in order and its death count
Reference == {<<EdgeList(T), ReferenceDeaths(T)>> : T \in Combinations}

\* combination t is enumerated before combination u
CombinationBefore(t, u) ==
    \E i \in 1..3 :
       /\ \A j \in 1..(i - 1) : t[j] = u[j]
       /\ EdgeBefore(t[i], u[i])

\* the first of the entries with the smallest count
FirstMinimum(entries) ==
    CHOOSE t \in entries :
       \A u \in entries \ {t} :
          t[2] < u[2] \/ (t[2] = u[2] /\ CombinationBefore(t[1], u[1]))

\* the connections find_best_config returned, without their direction
ReturnedConnections ==
    {{c, minimum_deaths_config[c]} : c \in DOMAIN minimum_deaths_config}

\* C19, as stated: on four cities each connected to every other, the connections
\* find_best_config returns and their death count are those of the reference
\* that removes every combination of 3 undirected edges, both directions of
\* each, runs the same horizon from reset and seeded cities and keeps the first
\* minimum.
C19_SearchAgreesWithBruteForce ==
    pc = "apply_config" =>
       Once(Reference,
            LAMBDA entries :
               \E best \in {FirstMinimum(entries)} :
                  /\ minimum_deaths = best[2]
                  /\ ReturnedConnections = {{best[1][k][1], best[1][k][2]} : k \in 1..3})

-----------------------------------------------------------------------------
(* C21 *)

\* healthy_population + infected + incoming_infected + survivors + cured + dead,
\* summed over the cities cs
TotalHeadCount(cs) ==
    SumOf(cs, "healthy_population") + SumOf(cs, "infected")
      + SumOf(cs, "incoming_infected") + SumOf(cs, "survivors")
      + SumOf(cs, "cured") + SumOf(cs, "dead")

\* C21: from the state set_initial_state leaves, no phase of any turn changes
\* the sum over all cities of healthy_population + infected + incoming_infected
\* + survivors + cured + dead: after every phase it is what it was then.
C21_GlobalHeadCount ==
    [][pc # "set_initial_state" => TotalHeadCount(cities') = TotalHeadCount(cities)]_vars

\* in the course of a later turn, after a unit has treated: cases are in transit
\* and cities have dead, survivors and cured
C21_Witness ==
    /\ engine.turn_number >= 2
    /\ pc = "statistics"
    /\ \E c \in Cities : cities[c].incoming_infected > 0
    /\ \E c \in Cities : cities[c].dead > 0 /\ cities[c].survivors > 0
    /\ \E c \in Cities : cities[c].cured > 0

-----------------------------------------------------------------------------
(* C22 *)

\* a city in which no one is healthy and fewer than 10, but some, are infected
Dwindling(city) ==
    city.healthy_population = 0 /\ city.infected > 0 /\ city.infected < 10

\* `after` is `before` with its infected resolved by the mortality split
ForcedResolution(before, after) ==
    LET die == (before.infected * params.MORTALITY_RATE[1]) \div params.MORTALITY_RATE[2]
    IN  /\ after.infected = 0
        /\ after.dead = before.dead + die
        /\ after.survivors = before.survivors + (before.infected - die)
        /\ after.healthy_population = before.healthy_population
        /\ after.cured = before.cured
        /\ after.incoming_infected = before.incoming_infected

\* C22: right after a city's run_turn the city does not have healthy_population
\* = 0 with 0 < infected < 10: where the new infections leave it so, its
\* infected are resolved, floor(infected * MORTALITY_RATE) of them dead and the
\* rest survivors, and infected is 0; also when healthy_population + survivors
\* + cured is 0 and there are no new infections.
C22_ExtinctionRule ==
    [][pc = "spread_infection" =>
         /\ ~Dwindling(cities'[cur])
         /\ Dwindling(spread_contacts(cities[cur])) =>
               ForcedResolution(spread_contacts(cities[cur]), cities'[cur])
         /\ (/\ Dwindling(cities[cur])
             /\ cities[cur].survivors + cities[cur].cured = 0) =>
               ForcedResolution(cities[cur], cities'[cur])]_vars

\* the run_turn of a city without inhabitants has just ended its first turn: of
\* the 8 cases in it, 5 died in change_in_infected_numbers, which left no
\* survivors, and the other 3 in the forced resolution
C22_Witness ==
    /\ engine.turn_number = 1
    /\ turn_log # <<>>
    /\ Last(turn_log) = <<"run_turn_end", 1>>
    /\ params.AVERAGE_DURATION = <<4, 1>>
    /\ params.MOVEMENT_PROPORTION = <<0, 1>>
    /\ cities[1].initial_population = 0
    /\ cities[1].survivors = 0
    /\ cities[1].infected = 0
    /\ cities[1].dead = 8

-----------------------------------------------------------------------------
(* C23 *)

\* C23, as stated: at the end of a turn whose entry of engine.infected is 0,
\* the condition on which animate_map ends a run, incoming_infected is 0 in
\* every city: no cases are in transit when the run is declared over.
C23_ExtinctionStopNotPremature ==
    (EndOfTurn /\ Last(engine.infected) = 0) =>
       \A c \in Cities : cities[c].incoming_infected = 0

-----------------------------------------------------------------------------
(* C24 *)

\* the steps of City.run_turn
CityPhases == {"move_infected", "change_in_infected_numbers", "spread_infection"}

\* the cities with the counters of every city but c set to those of a new city
\* without inhabitants
OnlyCity(c) ==
    [d \in Cities |->
       IF d = c THEN cities[d] ELSE [City(0) EXCEPT !.neighbours = cities[d].neighbours]]

\* C24: a step of City.run_turn on a city changes, outside that city, only the
\* incoming_infected of its neighbours; what City.run_turn makes of the city and
\* adds to each incoming_infected is the same whatever the counters of the other
\* cities are; and from the state after phase (1) the cities after phase (2)
\* are the same whatever order the cities are taken in.
C24_CityOrderIndependence ==
    [][/\ pc \in CityPhases =>
             /\ cities'[cur].incoming_infected = cities[cur].incoming_infected
             /\ \A d \in Cities \ {cur} :
                   /\ cities'[d] = [cities[d] EXCEPT !.incoming_infected =
                                                       cities'[d].incoming_infected]
                   /\ d \notin cities[cur].neighbours => cities'[d] = cities[d]
       /\ pc = "move_infected" =>
             \E amid \in {city_run_turn(cities, cur)},
                alone \in {city_run_turn(OnlyCity(cur), cur)} :
                /\ amid[cur] = alone[cur]
                /\ \A d \in Cities \ {cur} :
                      amid[d].incoming_infected - cities[d].incoming_infected
                         = alone[d].incoming_infected
       /\ (pc = "move_infected" /\ cur = 1) =>
             \E after \in {city_run_turn_upto(cities, N)} :
                \A order \in Iterations(Cities) :
                   city_run_turn_in(cities, order, N) = after]_vars

\* phase (2) of a turn has just ended, in which two neighbouring cities with
\* cases have each sent cases to the other
C24_Witness ==
    /\ turn_log # <<>>
    /\ Last(turn_log) = <<"run_turn_end", N>>
    /\ \E c \in Cities :
          \E d \in cities[c].neighbours :
             /\ c \in cities[d].neighbours
             /\ cities[c].infected > 0 /\ cities[c].incoming_infected > 0
             /\ cities[d].infected > 0 /\ cities[d].incoming_infected > 0

-----------------------------------------------------------------------------
(* C25 *)

\* C25, as stated: with a mortality rate and a movement proportion in [0, 1],
\* an infection rate >= 0 and an average duration >= 1, Engine.run_turn called
\* again and again reaches a turn after which the sum over all cities of
\* infected + incoming_infected is 0.
C25_RunTerminates == <>(InfectedAndIncoming(cities) = 0)

=============================================================================
